---- MODULE Spec2Model ----
(***************************************************************************)
(* ToDoCLI (src/src/main.rs): a to-do list held in memory, edited through  *)
(* the menu of modifier_liste and shown by TodoList::display.              *)
(*                                                                         *)
(* Option<T> is modelled as a sequence of length <= 1: None is << >> and   *)
(* Some(x) is <<x>>.  Timestamps (DateTime<Utc>) are readings of the clock *)
(* `now`; calendar dates (NaiveDate) are day numbers.                      *)
(***************************************************************************)
EXTENDS Integers, Sequences, FiniteSets, TLC

(* ------------------------------ bounds --------------------------------- *)

\* u32::MAX, the largest id, scaled down so that the model reaches it
U32_MAX == 3
\* longest list the edit menu builds under Spec
MaxLen == 1
\* last reading of the clock
MaxTime == 1
\* due dates are the days 0..MaxDate
MaxDate == 1
\* longest list drawn for the display order under SpecDisplay
MaxSortLen == 3
\* the days on which a list is displayed under SpecDue are 0..MaxToday
MaxToday == 2
\* the due dates drawn under SpecDue are the days 0..MaxDueDay
MaxDueDay == 9
\* longest list drawn under SpecDue
MaxDueLen == 1
\* longest list saved and loaded under SpecRoundTrip
MaxStoreLen == 2
\* most files the names of SpecStore make in the directory
MaxFiles == 2
\* longest list of a session of SpecStore and SpecTwo
MaxSessionLen == 1
\* longest list edited under SpecEdit
MaxEditLen == 2
\* longest list built under SpecIds: long enough for ids to saturate with no removal
MaxIdsLen == U32_MAX + 1

(* ------------------------------ Option --------------------------------- *)

None == << >>
Some(x) == <<x>>
is_some(o) == o # None

(* ------------------------------ enums ---------------------------------- *)

Priority == {"Low", "Medium", "High", "Critical"}

\* `priority as u8`: the discriminant, in declaration order
PriorityAsU8(p) ==
    CASE p = "Low" -> 0
      [] p = "Medium" -> 1
      [] p = "High" -> 2
      [] p = "Critical" -> 3

TaskStatus == {"Afaire", "EnCours", "EnAttente", "Terminee"}

is_done(status) == status = "Terminee"

(* ------------------------------ TodoItem ------------------------------- *)

TodoItem_new(id, title, description, priority, due_date, t) ==
    [id |-> id, title |-> title, description |-> description,
     status |-> "Afaire", priority |-> priority, due_date |-> due_date,
     created_at |-> t, completed_at |-> None]

mark_completed(item, t) ==
    [item EXCEPT !.status = "Terminee", !.completed_at = Some(t)]

mark_incomplete(item) ==
    [item EXCEPT !.status = "Afaire", !.completed_at = None]

\* is_overdue without the test of the status
is_overdue_any_status(item, today) ==
    IF is_some(item.due_date) THEN item.due_date[1] < today ELSE FALSE

\* today is Local::now().date_naive(), read by each call
is_overdue(item, today) ==
    IF is_some(item.due_date)
    THEN IF is_done(item.status) THEN FALSE ELSE item.due_date[1] < today
    ELSE FALSE

\* (due_date - today).num_days()
days_until_due(item, today) ==
    IF is_some(item.due_date) THEN Some(item.due_date[1] - today) ELSE None

(* ------------------------------ TodoList ------------------------------- *)

TodoList_new(name, t) ==
    [name |-> name, items |-> << >>, created_at |-> t, last_modified |-> t]

SetMax(S) == CHOOSE m \in S : \A x \in S : x <= m

ItemIds(its) == {its[i].id : i \in DOMAIN its}

\* u32::saturating_add
saturating_add(a, b) == IF a + b > U32_MAX THEN U32_MAX ELSE a + b

next_id_count(l) == saturating_add(Len(l.items), 1)

next_id(l) ==
    saturating_add(IF l.items = << >> THEN 0 ELSE SetMax(ItemIds(l.items)), 1)

\* the push shared by the three add operations, followed by the time stamp
Push(l, item, t) ==
    [l EXCEPT !.items = Append(l.items, item), !.last_modified = t]

add_item(l, title, description, t) ==
    Push(l, TodoItem_new(next_id(l), title, description, "Low", None, t), t)

add_item_with_details(l, title, description, priority, due_date, t) ==
    Push(l, TodoItem_new(next_id(l), title, description, priority, due_date, t), t)

add_item_with_details_status(l, title, description, status, priority, due_date, t) ==
    Push(l, [id |-> next_id(l), title |-> title, description |-> description,
             status |-> status, priority |-> priority, due_date |-> due_date,
             created_at |-> t,
             completed_at |-> IF is_done(status) THEN Some(t) ELSE None], t)

\* iter().position(|item| item.id == id): the first index, 0 for None
position(its, id) ==
    IF \E i \in DOMAIN its : its[i].id = id
    THEN CHOOSE i \in DOMAIN its :
            /\ its[i].id = id
            /\ \A j \in DOMAIN its : its[j].id = id => i <= j
    ELSE 0

\* Vec::remove(index)
VecRemove(s, i) == SubSeq(s, 1, i - 1) \o SubSeq(s, i + 1, Len(s))

\* each operation returns the list after the call and the value returned
remove_item(l, id, t) ==
    LET index == position(l.items, id) IN
    IF index # 0
    THEN [list |-> [l EXCEPT !.items = VecRemove(l.items, index), !.last_modified = t],
          ret |-> TRUE]
    ELSE [list |-> l, ret |-> FALSE]

\* a toggle that stamps the list also when it finds no item
toggle_item_stamping(l, id, t) ==
    LET index == position(l.items, id) IN
    IF index # 0
    THEN [list |-> [l EXCEPT !.items[index] =
                        IF is_done(l.items[index].status)
                        THEN mark_incomplete(l.items[index])
                        ELSE mark_completed(l.items[index], t),
                      !.last_modified = t],
          ret |-> TRUE]
    ELSE [list |-> [l EXCEPT !.last_modified = t], ret |-> FALSE]

toggle_item(l, id, t) ==
    LET index == position(l.items, id) IN
    IF index # 0
    THEN [list |-> [l EXCEPT !.items[index] =
                        IF is_done(l.items[index].status)
                        THEN mark_incomplete(l.items[index])
                        ELSE mark_completed(l.items[index], t),
                      !.last_modified = t],
          ret |-> TRUE]
    ELSE [list |-> l, ret |-> FALSE]

\* an update that gives the priority to every item
update_item_priority_every_item(l, id, priority, t) ==
    LET index == position(l.items, id) IN
    IF index # 0
    THEN [list |-> [l EXCEPT !.items = [i \in DOMAIN l.items |->
                                            [l.items[i] EXCEPT !.priority = priority]],
                             !.last_modified = t],
          ret |-> TRUE]
    ELSE [list |-> l, ret |-> FALSE]

update_item_priority(l, id, priority, t) ==
    LET index == position(l.items, id) IN
    IF index # 0
    THEN [list |-> [l EXCEPT !.items[index].priority = priority, !.last_modified = t],
          ret |-> TRUE]
    ELSE [list |-> l, ret |-> FALSE]

update_item_due_date_untouched(l, id, due_date, t) ==
    LET index == position(l.items, id) IN
    IF index # 0
    THEN [list |-> [l EXCEPT !.items[index].due_date = due_date], ret |-> TRUE]
    ELSE [list |-> l, ret |-> FALSE]

update_item_due_date(l, id, due_date, t) ==
    LET index == position(l.items, id) IN
    IF index # 0
    THEN [list |-> [l EXCEPT !.items[index].due_date = due_date, !.last_modified = t],
          ret |-> TRUE]
    ELSE [list |-> l, ret |-> FALSE]

\* branch 2 of modifier_liste, after the id and the new status are read
set_status_keeps_completed(l, id, new_status, t) ==
    LET index == position(l.items, id) IN
    IF index # 0
    THEN [list |-> [l EXCEPT !.items[index].status = new_status,
                             !.items[index].completed_at =
                                IF is_done(new_status) THEN Some(t) ELSE @,
                             !.last_modified = t],
          ret |-> TRUE]
    ELSE [list |-> l, ret |-> FALSE]

set_status(l, id, new_status, t) ==
    LET index == position(l.items, id) IN
    IF index # 0
    THEN [list |-> [l EXCEPT !.items[index].status = new_status,
                             !.items[index].completed_at =
                                IF is_done(new_status) THEN Some(t) ELSE None,
                             !.last_modified = t],
          ret |-> TRUE]
    ELSE [list |-> l, ret |-> FALSE]

(* ------------------------------ display -------------------------------- *)

\* std::cmp::Ordering of two day numbers
date_cmp(a, b) == IF a < b THEN "Less" ELSE IF a > b THEN "Greater" ELSE "Equal"

\* the comparison without the reversal of the priorities
display_cmp_ascending(a, b) ==
    LET priority_cmp == date_cmp(PriorityAsU8(a.priority), PriorityAsU8(b.priority)) IN
    IF priority_cmp # "Equal" THEN priority_cmp
    ELSE CASE is_some(a.due_date) /\ is_some(b.due_date) -> date_cmp(a.due_date[1], b.due_date[1])
           [] is_some(a.due_date) /\ ~is_some(b.due_date) -> "Less"
           [] ~is_some(a.due_date) /\ is_some(b.due_date) -> "Greater"
           [] OTHER -> "Equal"

\* the closure given to sort_by in display
display_cmp(a, b) ==
    LET priority_cmp == date_cmp(PriorityAsU8(b.priority), PriorityAsU8(a.priority)) IN
    IF priority_cmp # "Equal" THEN priority_cmp
    ELSE CASE is_some(a.due_date) /\ is_some(b.due_date) -> date_cmp(a.due_date[1], b.due_date[1])
           [] is_some(a.due_date) /\ ~is_some(b.due_date) -> "Less"
           [] ~is_some(a.due_date) /\ is_some(b.due_date) -> "Greater"
           [] OTHER -> "Equal"

\* slice::sort_by is a stable sort: x, which came after every element of r,
\* goes in front of the first element it is strictly Less than
RECURSIVE SortInsert(_, _)
SortInsert(r, x) ==
    IF r = << >> THEN <<x>>
    ELSE IF display_cmp(x, Head(r)) = "Less" THEN <<x>> \o r
    ELSE <<Head(r)>> \o SortInsert(Tail(r), x)

RECURSIVE sort_by(_)
sort_by(s) ==
    IF s = << >> THEN << >>
    ELSE SortInsert(sort_by(SubSeq(s, 1, Len(s) - 1)), s[Len(s)])

\* a display that sorts the list's own vector instead of a clone
display_in_place(l) ==
    [list |-> [l EXCEPT !.items = sort_by(l.items)], shown |-> sort_by(l.items)]

\* display(&self): the items in the order they are printed; the list is only read
display(l) ==
    [list |-> l, shown |-> sort_by(l.items)]

\* the line printed under an item for its due date
NoNote == "no due date"
Overdue == "ECHEANCE DEPASSEE"
Today == "AUJOURD'HUI!"
Tomorrow == "DEMAIN"
Soon == "dans n jours"
Scheduled == "Echeance"

\* the due-date lines of display: is_overdue and days_until_due each read the
\* date; today_overdue and today_days are what the two calls read
due_annotation(item, today_overdue, today_days) ==
    IF is_some(item.due_date)
    THEN IF is_overdue(item, today_overdue) THEN Overdue
         ELSE LET days == days_until_due(item, today_days) IN
              IF is_some(days)
              THEN IF days[1] = 0 THEN Today
                   ELSE IF days[1] = 1 THEN Tomorrow
                   ELSE IF days[1] < 7 THEN Soon
                   ELSE Scheduled
              ELSE NoNote
    ELSE NoNote

(* ------------------------------ persistence ---------------------------- *)

\* a name is the sequence of its characters
Json == <<".", "j", "s", "o", "n">>

\* char::to_lowercase, on the characters the model types
lower(c) == IF c = "A" THEN "a" ELSE IF c = "B" THEN "b" ELSE c

\* str::to_lowercase
to_lowercase(s) == [i \in DOMAIN s |-> lower(s[i])]

\* str::replace: every match of from (not empty), left to right, matches not
\* overlapping
RECURSIVE replace(_, _, _)
replace(s, from, to) ==
    IF Len(s) < Len(from) THEN s
    ELSE IF SubSeq(s, 1, Len(from)) = from
         THEN to \o replace(SubSeq(s, Len(from) + 1, Len(s)), from, to)
         ELSE <<s[1]>> \o replace(Tail(s), from, to)

\* str::ends_with
ends_with(s, suffix) ==
    /\ Len(suffix) <= Len(s)
    /\ SubSeq(s, Len(s) - Len(suffix) + 1, Len(s)) = suffix

\* format!("{}.json", name.replace(" ", "_").to_lowercase())
filename_for(name) == to_lowercase(replace(name, <<" ">>, <<"_">>)) \o Json

\* filename.replace(".json", "").replace("_", " ")
listed_name(filename) == replace(replace(filename, Json, << >>), <<"_">>, <<" ">>)

\* Result
Ok(v) == [ok |-> TRUE, value |-> v]
Err(e) == [ok |-> FALSE, value |-> e]

\* serde_json::Value
JNull == [t |-> "null"]
JNum(n) == [t |-> "num", v |-> n]
JStr(text) == [t |-> "str", v |-> text]
JArr(a) == [t |-> "arr", v |-> a]
JObj(o) == [t |-> "obj", v |-> o]

\* the texts written for a string, for a DateTime<Utc> (RFC 3339, to the
\* nanosecond) and for a NaiveDate (year-month-day)
StrText(s) == [text |-> s]
DateTimeText(t) == [rfc3339 |-> t]
NaiveDateText(d) == [ymd |-> d]

\* Serialize
ser_option(o, ser(_)) == IF is_some(o) THEN ser(o[1]) ELSE JNull
ser_str(s) == JStr(StrText(s))
ser_u32(n) == JNum(n)
ser_DateTime(t) == JStr(DateTimeText(t))
ser_NaiveDate(d) == JStr(NaiveDateText(d))

\* a TodoItem written without its completed_at
ser_TodoItem_skip_completed_at(item) ==
    JObj([id |-> ser_u32(item.id),
          title |-> ser_str(item.title),
          description |-> ser_option(item.description, ser_str),
          status |-> ser_str(item.status),
          priority |-> ser_str(item.priority),
          due_date |-> ser_option(item.due_date, ser_NaiveDate),
          created_at |-> ser_DateTime(item.created_at)])

\* #[derive(Serialize)] struct TodoItem: the variants of the enums are
\* written as their names
ser_TodoItem(item) ==
    JObj([id |-> ser_u32(item.id),
          title |-> ser_str(item.title),
          description |-> ser_option(item.description, ser_str),
          status |-> ser_str(item.status),
          priority |-> ser_str(item.priority),
          due_date |-> ser_option(item.due_date, ser_NaiveDate),
          created_at |-> ser_DateTime(item.created_at),
          completed_at |-> ser_option(item.completed_at, ser_DateTime)])

\* #[derive(Serialize)] struct TodoList
ser_TodoList(l) ==
    JObj([name |-> ser_str(l.name),
          items |-> JArr([i \in DOMAIN l.items |-> ser_TodoItem(l.items[i])]),
          created_at |-> ser_DateTime(l.created_at),
          last_modified |-> ser_DateTime(l.last_modified)])

\* Deserialize
de_str(j) ==
    IF j.t = "str" /\ DOMAIN j.v = {"text"} THEN Ok(j.v.text) ELSE Err("invalid type")
de_u32(j) ==
    IF j.t = "num" /\ j.v \in 0..U32_MAX THEN Ok(j.v) ELSE Err("invalid type")
de_DateTime(j) ==
    IF j.t = "str" /\ DOMAIN j.v = {"rfc3339"} THEN Ok(j.v.rfc3339) ELSE Err("invalid type")
de_NaiveDate(j) ==
    IF j.t = "str" /\ DOMAIN j.v = {"ymd"} THEN Ok(j.v.ymd) ELSE Err("invalid type")
de_variant(j, variants) ==
    IF j.t = "str" /\ DOMAIN j.v = {"text"} /\ j.v.text \in variants
    THEN Ok(j.v.text) ELSE Err("unknown variant")
de_TaskStatus(j) == de_variant(j, TaskStatus)
de_Priority(j) == de_variant(j, Priority)
de_option(j, de(_)) ==
    IF j.t = "null" THEN Ok(None)
    ELSE LET r == de(j) IN IF r.ok THEN Ok(Some(r.value)) ELSE r

\* a field of an object; a field that is missing reads as null, which an
\* Option takes for None and every other type refuses
Field(o, name) == IF name \in DOMAIN o THEN o[name] ELSE JNull

\* #[derive(Deserialize)] struct TodoItem
de_TodoItem(j) ==
    IF j.t # "obj" THEN Err("invalid type")
    ELSE LET id == de_u32(Field(j.v, "id"))
             title == de_str(Field(j.v, "title"))
             description == de_option(Field(j.v, "description"), de_str)
             status == de_TaskStatus(Field(j.v, "status"))
             priority == de_Priority(Field(j.v, "priority"))
             due_date == de_option(Field(j.v, "due_date"), de_NaiveDate)
             created_at == de_DateTime(Field(j.v, "created_at"))
             completed_at == de_option(Field(j.v, "completed_at"), de_DateTime)
         IN IF /\ id.ok /\ title.ok /\ description.ok /\ status.ok /\ priority.ok
               /\ due_date.ok /\ created_at.ok /\ completed_at.ok
            THEN Ok([id |-> id.value, title |-> title.value,
                     description |-> description.value, status |-> status.value,
                     priority |-> priority.value, due_date |-> due_date.value,
                     created_at |-> created_at.value,
                     completed_at |-> completed_at.value])
            ELSE Err("invalid item")

\* Vec<TodoItem>
de_items(j) ==
    IF j.t # "arr" THEN Err("invalid type")
    ELSE LET r == [i \in DOMAIN j.v |-> de_TodoItem(j.v[i])] IN
         IF \A i \in DOMAIN r : r[i].ok
         THEN Ok([i \in DOMAIN r |-> r[i].value])
         ELSE Err("invalid item")

\* #[derive(Deserialize)] struct TodoList
de_TodoList(j) ==
    IF j.t # "obj" THEN Err("invalid type")
    ELSE LET name == de_str(Field(j.v, "name"))
             its == de_items(Field(j.v, "items"))
             created_at == de_DateTime(Field(j.v, "created_at"))
             last_modified == de_DateTime(Field(j.v, "last_modified"))
         IN IF name.ok /\ its.ok /\ created_at.ok /\ last_modified.ok
            THEN Ok([name |-> name.value, items |-> its.value,
                     created_at |-> created_at.value,
                     last_modified |-> last_modified.value])
            ELSE Err("invalid list")

\* the content of a file: the text of a JSON value, nothing (a file just
\* created), or a text followed by what is left of a longer, older one.
\* len orders the texts by length: of two texts of lists of one name, the
\* one of the list with more items is the longer one
EmptyFile == [kind |-> "empty", json |-> JNull, len |-> 0]
TextFile(json, len) == [kind |-> "text", json |-> json, len |-> len]
TornFile(json, len) == [kind |-> "torn", json |-> json, len |-> len]

\* serde_json::to_string_pretty
to_string_pretty(l) == TextFile(ser_TodoList(l), Len(l.name) + Len(l.items) + 1)

\* serde_json::from_str: the text of one value and nothing after it
from_str(content) ==
    IF content.kind = "text" THEN de_TodoList(content.json)
    ELSE IF content.kind = "empty" THEN Err("EOF while parsing a value")
    ELSE Err("trailing characters")

\* the directory: the files that exist, each with its content
EmptyDir == [f \in {} |-> EmptyFile]

\* File::create: the file exists and is empty
fs_create(dir, filename) ==
    [f \in DOMAIN dir \cup {filename} |-> IF f = filename THEN EmptyFile ELSE dir[f]]

\* write_all on a file just opened: the text goes over the start of what the
\* file holds by then
write_all(dir, filename, content) ==
    [f \in DOMAIN dir \cup {filename} |->
        IF f = filename
        THEN IF filename \in DOMAIN dir /\ dir[f].len > content.len
             THEN TornFile(content.json, dir[f].len)
             ELSE content
        ELSE dir[f]]

\* fs::write with no other process at the file
fs_write(dir, filename, content) == write_all(fs_create(dir, filename), filename, content)

\* fs::read_to_string
fs_read_to_string(dir, filename) ==
    IF filename \in DOMAIN dir THEN Ok(dir[filename]) ELSE Err("No such file or directory")

\* fs::remove_file
fs_remove_file(dir, filename) ==
    IF filename \in DOMAIN dir
    THEN [files |-> [f \in DOMAIN dir \ {filename} |-> dir[f]], ret |-> Ok("removed")]
    ELSE [files |-> dir, ret |-> Err("No such file or directory")]

\* a save that refuses to replace a file
save_todo_list_create_new(dir, l) ==
    IF filename_for(l.name) \in DOMAIN dir
    THEN [files |-> dir, ret |-> Err("File exists")]
    ELSE [files |-> fs_write(dir, filename_for(l.name), to_string_pretty(l)),
          ret |-> Ok(l.name)]

\* a save that writes beside the file it finds instead of over it
save_todo_list_beside(dir, l) ==
    LET filename == IF filename_for(l.name) \in DOMAIN dir
                    THEN <<"_">> \o filename_for(l.name)
                    ELSE filename_for(l.name)
    IN [files |-> fs_write(dir, filename, to_string_pretty(l)), ret |-> Ok(l.name)]

save_todo_list(dir, l) ==
    [files |-> fs_write(dir, filename_for(l.name), to_string_pretty(l)),
     ret |-> Ok(l.name)]

load_todo_list(dir, name) ==
    LET content == fs_read_to_string(dir, filename_for(name)) IN
    IF content.ok THEN from_str(content.value) ELSE content

\* fs::read_dir: the files in an order of the system's choosing
ReadDir(dir) ==
    {order \in [1..Cardinality(DOMAIN dir) -> DOMAIN dir] :
        \A i, j \in DOMAIN order : order[i] = order[j] => i = j}

\* the names list_saved_todo_lists returns for the files read in that order
list_saved_todo_lists(order) ==
    LET kept == SelectSeq(order, LAMBDA filename : ends_with(filename, Json)) IN
    [i \in DOMAIN kept |-> listed_name(kept[i])]

(* ------------------------------ state ---------------------------------- *)

VARIABLES
    todo_list,  \* the TodoList in memory
    now,        \* Utc::now()
    out,        \* what the last operation returned or printed
    removed,    \* history: the ids remove_item has taken out of the list
    today,      \* Local::now().date_naive()
    files,      \* the working directory
    mode,       \* where the program waits for its next line of input
    peer        \* a second process of the program: its mode and its todo_list

vars == <<todo_list, now, out, removed, today, files, mode, peer>>

\* todo_list while no list is in scope (the main menu)
NoList == [name |-> << >>, items |-> << >>, created_at |-> 0, last_modified |-> 0]
\* no second process at work
NoPeer == [mode |-> "menu", todo_list |-> NoList]

Unit == [kind |-> "unit", val |-> << >>]
Ret(b) == [kind |-> "bool", val |-> b]
Shown(s, notes) == [kind |-> "display", val |-> s, notes |-> notes]
ListeVide == [kind |-> "vide", val |-> << >>]
TitreVide == [kind |-> "titre vide", val |-> << >>]

(* ------------------------------ inputs --------------------------------- *)

Names == {"Groceries"}
Titles == {"Milk"}
\* the lines typed at the title prompt of the menu
TypedTitles == {"Milk", "", " "}
\* str::trim, on the lines the model types
trim(line) == IF line = " " THEN "" ELSE line
Descriptions == {None}
Dates == 0..MaxDate
DueDates == {None} \cup {Some(d) : d \in Dates}
\* what get_priority_from_user and get_due_date_from_user return under Spec
MenuPriorities == {"Low", "Critical"}
MenuDueDates == {None, Some(0)}
\* an id typed at the prompt: any u32
InputIds == 0..U32_MAX

Init ==
    /\ todo_list \in {TodoList_new(n, 0) : n \in Names}
    /\ now = 0
    /\ out = Unit
    /\ removed = {}
    /\ today = 0
    /\ files = EmptyDir
    /\ mode = "modifier"
    /\ peer = NoPeer

(* ------------------------------ actions -------------------------------- *)

\* the clock moves between two operations
Tick ==
    /\ now < MaxTime
    /\ now' = now + 1
    /\ UNCHANGED <<todo_list, out, removed, today, files, mode, peer>>

AddItem(title, description) ==
    /\ todo_list' = add_item(todo_list, title, description, now)
    /\ out' = Unit
    /\ UNCHANGED <<now, removed, today, files, mode, peer>>

AddItemWithDetails(title, description, priority, due_date) ==
    /\ todo_list' = add_item_with_details(todo_list, title, description, priority, due_date, now)
    /\ out' = Unit
    /\ UNCHANGED <<now, removed, today, files, mode, peer>>

\* the add of the menu without the test of the title
AddItemWithDetailsStatus_unchecked(typed, description, status, priority, due_date) ==
    /\ todo_list' = add_item_with_details_status(todo_list, trim(typed), description,
                                                 status, priority, due_date, now)
    /\ out' = Unit
    /\ UNCHANGED <<now, removed, today, files, mode, peer>>

\* modifier_liste, choice 1 (and the loop of creer_liste): typed is the line read
\* for the title; an empty title ends the choice before anything else is asked
AddItemWithDetailsStatus(typed, description, status, priority, due_date) ==
    /\ IF trim(typed) = ""
       THEN /\ out' = TitreVide
            /\ UNCHANGED todo_list
       ELSE /\ todo_list' = add_item_with_details_status(todo_list, trim(typed), description,
                                                         status, priority, due_date, now)
            /\ out' = Unit
    /\ UNCHANGED <<now, removed, today, files, mode, peer>>

\* modifier_liste, choice 2
SetStatus(id, new_status) ==
    /\ IF todo_list.items = << >>
       THEN /\ out' = ListeVide
            /\ UNCHANGED todo_list
       ELSE LET r == set_status(todo_list, id, new_status, now) IN
            /\ todo_list' = r.list
            /\ out' = Ret(r.ret)
    /\ UNCHANGED <<now, removed, today, files, mode, peer>>

\* modifier_liste, choice 3
ToggleItem(id) ==
    /\ IF todo_list.items = << >>
       THEN /\ out' = ListeVide
            /\ UNCHANGED todo_list
       ELSE LET r == toggle_item(todo_list, id, now) IN
            /\ todo_list' = r.list
            /\ out' = Ret(r.ret)
    /\ UNCHANGED <<now, removed, today, files, mode, peer>>

\* modifier_liste, choice 4
RemoveItem(id) ==
    /\ IF todo_list.items = << >>
       THEN /\ out' = ListeVide
            /\ UNCHANGED <<todo_list, removed>>
       ELSE LET r == remove_item(todo_list, id, now) IN
            /\ todo_list' = r.list
            /\ out' = Ret(r.ret)
            /\ removed' = IF r.ret THEN removed \cup {id} ELSE removed
    /\ UNCHANGED <<now, today, files, mode, peer>>

\* modifier_liste, choice 5
UpdateItemPriority(id, priority) ==
    /\ IF todo_list.items = << >>
       THEN /\ out' = ListeVide
            /\ UNCHANGED todo_list
       ELSE LET r == update_item_priority(todo_list, id, priority, now) IN
            /\ todo_list' = r.list
            /\ out' = Ret(r.ret)
    /\ UNCHANGED <<now, removed, today, files, mode, peer>>

\* modifier_liste, choice 6
UpdateItemDueDate(id, due_date) ==
    /\ IF todo_list.items = << >>
       THEN /\ out' = ListeVide
            /\ UNCHANGED todo_list
       ELSE LET r == update_item_due_date(todo_list, id, due_date, now) IN
            /\ todo_list' = r.list
            /\ out' = Ret(r.ret)
    /\ UNCHANGED <<now, removed, today, files, mode, peer>>

\* modifier_liste, choice 7
Display ==
    /\ LET r == display(todo_list) IN
        /\ todo_list' = r.list
        /\ out' = Shown(r.shown,
                        [i \in DOMAIN r.shown |-> due_annotation(r.shown[i], today, today)])
    /\ UNCHANGED <<now, removed, today, files, mode, peer>>

Next ==
    \/ Tick
    \/ /\ Len(todo_list.items) < MaxLen
       /\ \E title \in Titles, description \in Descriptions : AddItem(title, description)
    \/ /\ Len(todo_list.items) < MaxLen
       /\ \E title \in Titles, description \in Descriptions, priority \in MenuPriorities,
             due_date \in MenuDueDates :
            AddItemWithDetails(title, description, priority, due_date)
    \/ /\ Len(todo_list.items) < MaxLen
       /\ \E title \in Titles, description \in Descriptions, status \in TaskStatus,
             priority \in MenuPriorities, due_date \in MenuDueDates :
            AddItemWithDetailsStatus(title, description, status, priority, due_date)
    \/ \E id \in InputIds, new_status \in TaskStatus : SetStatus(id, new_status)
    \/ \E id \in InputIds : ToggleItem(id)
    \/ \E id \in InputIds : RemoveItem(id)
    \/ \E id \in InputIds, priority \in MenuPriorities : UpdateItemPriority(id, priority)
    \/ \E id \in InputIds, due_date \in MenuDueDates : UpdateItemDueDate(id, due_date)
    \/ Display

Spec == Init /\ [][Next]_vars

(* ------------------- the list operations alone: ids --------------------- *)

NextIds ==
    \/ /\ Len(todo_list.items) < MaxIdsLen
       /\ \E title \in Titles, description \in Descriptions : AddItem(title, description)
    \/ /\ Len(todo_list.items) < MaxIdsLen
       /\ \E title \in Titles, description \in Descriptions :
            AddItemWithDetails(title, description, "Low", None)
    \/ \E id \in InputIds : RemoveItem(id)

SpecIds == Init /\ [][NextIds]_vars

(* ------------------- display of an arbitrary list ----------------------- *)

\* lists of n items as n adds on a new list leave them: ids 1..n in insertion order
RECURSIVE DrawnItems(_)
DrawnItems(n) ==
    IF n = 0 THEN {<< >>}
    ELSE {Append(its, TodoItem_new(n, title, None, priority, due_date, 0)) :
            its \in DrawnItems(n - 1), title \in Titles, priority \in Priority,
            due_date \in DueDates}

InitDisplay ==
    /\ \E n \in 0..MaxSortLen, name \in Names :
        todo_list \in {[TodoList_new(name, 0) EXCEPT !.items = its] : its \in DrawnItems(n)}
    /\ now = 0
    /\ out = Unit
    /\ removed = {}
    /\ today = 0
    /\ files = EmptyDir
    /\ mode = "modifier"
    /\ peer = NoPeer

NextDisplay == Display

SpecDisplay == InitDisplay /\ [][NextDisplay]_vars

(* ------------------- display on a given day ---------------------------- *)

DueDays == 0..MaxDueDay

\* the lists that n adds of the menu leave
RECURSIVE DrawnDueLists(_)
DrawnDueLists(n) ==
    IF n = 0 THEN {TodoList_new(name, 0) : name \in Names}
    ELSE {add_item_with_details_status(l, title, None, status, "Low", due_date, 0) :
            l \in DrawnDueLists(n - 1), title \in Titles, status \in TaskStatus,
            due_date \in {None} \cup {Some(d) : d \in DueDays}}

InitDue ==
    /\ \E n \in 0..MaxDueLen : todo_list \in DrawnDueLists(n)
    /\ now = 0
    /\ out = Unit
    /\ removed = {}
    /\ today \in 0..MaxToday
    /\ files = EmptyDir
    /\ mode = "modifier"
    /\ peer = NoPeer

\* the day ends between two operations
Midnight ==
    /\ today < MaxToday
    /\ today' = today + 1
    /\ UNCHANGED <<todo_list, now, out, removed, files, mode, peer>>

\* the day on which the r-th reading of the clock of one display falls, when
\* the day ends after the first m readings
read_date(r, m) == IF r <= m THEN today ELSE today + 1

\* modifier_liste, choice 7, with the day ending while the list is shown: the
\* i-th item shown reads the clock in is_overdue (reading 2i-1) and again in
\* days_until_due (reading 2i)
DisplayOverMidnight(m) ==
    /\ today < MaxToday
    /\ LET r == display(todo_list) IN
        /\ m < 2 * Len(r.shown)
        /\ todo_list' = r.list
        /\ out' = Shown(r.shown,
                        [i \in DOMAIN r.shown |->
                            due_annotation(r.shown[i], read_date(2 * i - 1, m),
                                                       read_date(2 * i, m))])
    /\ today' = today + 1
    /\ UNCHANGED <<now, removed, files, mode, peer>>

NextDue ==
    \/ Display
    \/ Midnight
    \/ \E m \in 0..(2 * MaxDueLen) : DisplayOverMidnight(m)

SpecDue == InitDue /\ [][NextDue]_vars

(* ------------------- save and load of an arbitrary list ---------------- *)

\* the names typed for a list
NameSpace == <<"a", " ", "b">>
NameUnderscore == <<"a", "_", "b">>
NameUpper == <<"A", " ", "b">>
NameDotJson == <<"a", ".", "j", "s", "o", "n">>
ListNames == {NameSpace, NameUnderscore, NameUpper, NameDotJson}

\* what the program prints after a save; over is history: the name of the
\* list whose text the save has replaced, if the file existed
Saved(name, over) == [kind |-> "saved", val |-> name, over |-> over]
\* the result of a load_todo_list
Load(name, result) == [kind |-> "load", val |-> name, result |-> result]

\* the name of the list of a file, if the file exists (empty if the file
\* does not hold a list)
replaced(dir, filename) ==
    IF filename \in DOMAIN dir
    THEN LET r == from_str(dir[filename]) IN
         IF r.ok THEN Some(r.value.name) ELSE Some(<< >>)
    ELSE None

\* the lists left by n adds, the i-th at time i, with every optional field
\* present or absent
RECURSIVE DrawnStoreLists(_)
DrawnStoreLists(n) ==
    IF n = 0 THEN {TodoList_new(name, 0) : name \in ListNames}
    ELSE {add_item_with_details_status(l, "Milk", description, status, "High", due_date, n) :
            l \in DrawnStoreLists(n - 1),
            description \in {None, Some("2 litres")},
            status \in {"Afaire", "Terminee"},
            due_date \in {None, Some(1)}}

InitRoundTrip ==
    /\ \E n \in 0..MaxStoreLen : todo_list \in DrawnStoreLists(n)
    /\ now = 0
    /\ out = Unit
    /\ removed = {}
    /\ today = 0
    /\ files = EmptyDir
    /\ mode = "modifier"
    /\ peer = NoPeer

SaveTodoList ==
    /\ LET r == save_todo_list(files, todo_list) IN
        /\ files' = r.files
        /\ out' = Saved(r.ret.value, replaced(files, filename_for(todo_list.name)))
    /\ UNCHANGED <<todo_list, now, removed, today, mode, peer>>

LoadTodoList(name) ==
    /\ out' = Load(name, load_todo_list(files, name))
    /\ UNCHANGED <<todo_list, now, removed, today, files, mode, peer>>

NextRoundTrip ==
    \/ SaveTodoList
    \/ \E name \in ListNames : LoadTodoList(name)

SpecRoundTrip == InitRoundTrip /\ [][NextRoundTrip]_vars

(* ------------------- the main menu and the directory ------------------- *)

\* the lines typed at the name prompt of creer_liste, trimmed
TypedNames == ListNames \cup {<< >>}
\* the numbers typed to choose a list
Choices == 0..(MaxFiles + 1)
\* the lines typed to confirm a deletion
Confirms == {"oui", "OUI", "non"}
\* confirm.trim().to_lowercase() == "oui"
is_oui(confirm) == confirm \in {"oui", "OUI"}

NomVide == [kind |-> "nom vide", val |-> << >>]
AucuneListe == [kind |-> "aucune liste", val |-> << >>]
ChoixInvalide == [kind |-> "choix invalide", val |-> << >>]
ErreurSauvegarde(e) == [kind |-> "erreur sauvegarde", val |-> << >>, err |-> e]
SuppressionAnnulee == [kind |-> "suppression annulee", val |-> << >>]
Suppression(name, result) == [kind |-> "suppression", val |-> name, result |-> result]

InitStore ==
    /\ todo_list = NoList
    /\ now = 0
    /\ out = Unit
    /\ removed = {}
    /\ today = 0
    /\ files = EmptyDir
    /\ mode = "menu"
    /\ peer = NoPeer

\* main, choice 1: creer_liste up to its first title prompt
CreerListe(name) ==
    /\ mode = "menu"
    /\ IF name = << >>
       THEN /\ out' = NomVide
            /\ UNCHANGED <<todo_list, mode>>
       ELSE /\ todo_list' = TodoList_new(name, now)
            /\ mode' = "creer"
            /\ out' = Unit
    /\ UNCHANGED <<now, removed, today, files, peer>>

\* what follows a save_todo_list: its message, or the error printed
after_save(dir, l) ==
    LET r == save_todo_list(dir, l) IN
    [files |-> r.files,
     out |-> IF r.ret.ok
             THEN Saved(r.ret.value, replaced(dir, filename_for(l.name)))
             ELSE ErreurSauvegarde(r.ret.value)]

\* creer_liste, title 'fin': the list is shown and saved, back to the main menu
CreerListeFin ==
    /\ mode = "creer"
    /\ LET r == after_save(files, display(todo_list).list) IN
        /\ files' = r.files
        /\ out' = r.out
    /\ mode' = "menu"
    /\ todo_list' = NoList
    /\ UNCHANGED <<now, removed, today, peer>>

\* mettre_a_jour_liste up to the menu of modifier_liste: the list chosen is
\* loaded and shown
mettre_a_jour_liste(dir, order, choice) ==
    LET lists == list_saved_todo_lists(order) IN
    IF Len(lists) = 0
    THEN [mode |-> "menu", list |-> NoList, out |-> AucuneListe]
    ELSE IF choice > 0 /\ choice <= Len(lists)
         THEN LET r == load_todo_list(dir, lists[choice]) IN
              IF r.ok
              THEN [mode |-> "modifier", list |-> display(r.value).list,
                    out |-> Load(lists[choice], r)]
              ELSE [mode |-> "menu", list |-> NoList, out |-> Load(lists[choice], r)]
         ELSE [mode |-> "menu", list |-> NoList, out |-> ChoixInvalide]

\* main, choice 2
MettreAJourListe(order, choice) ==
    /\ mode = "menu"
    /\ LET r == mettre_a_jour_liste(files, order, choice) IN
        /\ mode' = r.mode
        /\ todo_list' = r.list
        /\ out' = r.out
    /\ UNCHANGED <<now, removed, today, files, peer>>

\* modifier_liste, choice 8, and the save that follows it in
\* mettre_a_jour_liste
Retour ==
    /\ mode = "modifier"
    /\ LET r == after_save(files, todo_list) IN
        /\ files' = r.files
        /\ out' = r.out
    /\ mode' = "menu"
    /\ todo_list' = NoList
    /\ UNCHANGED <<now, removed, today, peer>>

\* main, choice 3
SupprimerListe(order, choice, confirm) ==
    /\ mode = "menu"
    /\ LET lists == list_saved_todo_lists(order) IN
        IF Len(lists) = 0
        THEN /\ out' = AucuneListe
             /\ UNCHANGED files
        ELSE IF choice > 0 /\ choice <= Len(lists)
             THEN IF is_oui(confirm)
                  THEN LET r == fs_remove_file(files, filename_for(lists[choice])) IN
                        /\ files' = r.files
                        /\ out' = Suppression(lists[choice], r.ret)
                  ELSE /\ out' = SuppressionAnnulee
                       /\ UNCHANGED files
             ELSE /\ out' = ChoixInvalide
                  /\ UNCHANGED files
    /\ UNCHANGED <<todo_list, now, removed, today, mode, peer>>

\* the lines typed where the program reads a number
NumberLines == {"8", "abc", ""}
\* str::parse::<u32>, on the lines the model types
parse_u32(line) == IF line = "8" THEN Ok(8) ELSE Err("invalid digit found in string")

\* the panic of an expect: the process ends
Panicked(message) == [kind |-> "panicked", val |-> << >>, message |-> message]

\* a line that is no number typed where main, mettre_a_jour_liste,
\* supprimer_liste or modifier_liste (menu choice, item id) reads a number:
\* expect("Veuillez entrer un nombre") panics and the process ends, the list
\* in memory with it
ExpectNombre(line) ==
    /\ mode \in {"menu", "modifier"}
    /\ ~parse_u32(line).ok
    /\ mode' = "panicked"
    /\ todo_list' = NoList
    /\ out' = Panicked("Veuillez entrer un nombre")
    /\ UNCHANGED <<now, removed, today, files, peer>>

NextStore ==
    \/ \E name \in TypedNames : CreerListe(name)
    \/ CreerListeFin
    \/ \E order \in ReadDir(files), choice \in Choices : MettreAJourListe(order, choice)
    \/ Retour
    \/ \E order \in ReadDir(files), choice \in Choices, confirm \in Confirms :
            SupprimerListe(order, choice, confirm)
    \/ /\ mode \in {"creer", "modifier"}
       /\ \E typed \in TypedTitles :
            /\ Len(todo_list.items) < MaxSessionLen \/ trim(typed) = ""
            /\ AddItemWithDetailsStatus(typed, None, "Afaire", "Low", None)
    \/ /\ mode = "modifier"
       /\ \E id \in 1..MaxSessionLen : ToggleItem(id)
    \/ \E line \in NumberLines : ExpectNombre(line)

SpecStore == InitStore /\ [][NextStore]_vars

(* ------------------- two processes and one file ------------------------ *)

\* the titles typed in the second process
PeerTitles == {"Eggs"}

\* the list "a b" was created empty and saved; both processes are at their
\* main menu
InitTwo ==
    /\ todo_list = NoList
    /\ now = 0
    /\ out = Unit
    /\ removed = {}
    /\ today = 0
    /\ files = save_todo_list(EmptyDir, TodoList_new(NameSpace, 0)).files
    /\ mode = "menu"
    /\ peer = NoPeer

\* modifier_liste, choice 8, and the save that follows, as far as the
\* File::create of fs::write
RetourCreate ==
    /\ mode = "modifier"
    /\ files' = fs_create(files, filename_for(todo_list.name))
    /\ mode' = "saving"
    /\ out' = Unit
    /\ UNCHANGED <<todo_list, now, removed, today, peer>>

\* the write_all of fs::write and the message of save_todo_list
RetourWrite ==
    /\ mode = "saving"
    /\ files' = write_all(files, filename_for(todo_list.name), to_string_pretty(todo_list))
    /\ out' = Saved(todo_list.name, replaced(files, filename_for(todo_list.name)))
    /\ mode' = "menu"
    /\ todo_list' = NoList
    /\ UNCHANGED <<now, removed, today, peer>>

\* the second process: main, choice 2
PeerMettreAJourListe(order, choice) ==
    /\ peer.mode = "menu"
    /\ LET r == mettre_a_jour_liste(files, order, choice) IN
        peer' = [mode |-> r.mode, todo_list |-> r.list]
    /\ UNCHANGED <<todo_list, now, out, removed, today, files, mode>>

\* the second process: modifier_liste, choice 1
PeerAddItemWithDetailsStatus(typed, description, status, priority, due_date) ==
    /\ peer.mode = "modifier"
    /\ IF trim(typed) = ""
       THEN UNCHANGED peer
       ELSE peer' = [peer EXCEPT !.todo_list =
                        add_item_with_details_status(@, trim(typed), description,
                                                     status, priority, due_date, now)]
    /\ UNCHANGED <<todo_list, now, out, removed, today, files, mode>>

\* the second process: choice 8, as far as File::create
PeerRetourCreate ==
    /\ peer.mode = "modifier"
    /\ files' = fs_create(files, filename_for(peer.todo_list.name))
    /\ peer' = [peer EXCEPT !.mode = "saving"]
    /\ UNCHANGED <<todo_list, now, out, removed, today, mode>>

\* the second process: write_all, back to its main menu
PeerRetourWrite ==
    /\ peer.mode = "saving"
    /\ files' = write_all(files, filename_for(peer.todo_list.name),
                          to_string_pretty(peer.todo_list))
    /\ peer' = NoPeer
    /\ UNCHANGED <<todo_list, now, out, removed, today, mode>>

NextTwo ==
    \/ \E order \in ReadDir(files), choice \in Choices : MettreAJourListe(order, choice)
    \/ /\ mode = "modifier"
       /\ Len(todo_list.items) < MaxSessionLen
       /\ \E typed \in Titles :
            AddItemWithDetailsStatus(typed, None, "Afaire", "Low", None)
    \/ RetourCreate
    \/ RetourWrite
    \/ \E order \in ReadDir(files), choice \in Choices : PeerMettreAJourListe(order, choice)
    \/ /\ Len(peer.todo_list.items) < MaxSessionLen
       /\ \E typed \in PeerTitles :
            PeerAddItemWithDetailsStatus(typed, None, "Afaire", "Low", None)
    \/ PeerRetourCreate
    \/ PeerRetourWrite

SpecTwo == InitTwo /\ [][NextTwo]_vars

(* ------------------- the edits of an arbitrary list --------------------- *)

\* the titles of the items of the lists of SpecEdit, in the order of the adds
EditTitles == <<"Milk", "Eggs", "Bread", "Tea">>

\* the lists left by n adds of the menu, the i-th at time i
RECURSIVE DrawnEditLists(_)
DrawnEditLists(n) ==
    IF n = 0 THEN {TodoList_new(name, 0) : name \in Names}
    ELSE {add_item_with_details_status(l, EditTitles[((n - 1) % Len(EditTitles)) + 1],
                                       None, "Afaire", "Low", None, n) :
            l \in DrawnEditLists(n - 1)}

\* the edits are made later than every add
InitEdit ==
    /\ \E n \in 0..MaxEditLen : todo_list \in DrawnEditLists(n)
    /\ now = MaxEditLen + 1
    /\ out = Unit
    /\ removed = {}
    /\ today = 0
    /\ files = EmptyDir
    /\ mode = "modifier"
    /\ peer = NoPeer

NextEdit ==
    \/ \E id \in InputIds, new_status \in TaskStatus : SetStatus(id, new_status)
    \/ \E id \in InputIds : ToggleItem(id)
    \/ \E id \in InputIds : RemoveItem(id)
    \/ \E id \in InputIds, priority \in MenuPriorities : UpdateItemPriority(id, priority)
    \/ \E id \in InputIds, due_date \in MenuDueDates : UpdateItemDueDate(id, due_date)

SpecEdit == InitEdit /\ [][NextEdit]_vars

(* ------------------------------ claims --------------------------------- *)

items == todo_list.items

\* a step that pushed one item: any of the three add operations
AddStep == Len(todo_list'.items) = Len(items) + 1

NewItem == todo_list'.items[Len(todo_list'.items)]

\* C1: in every reachable state no two items of the list have the same id.
C1_UniqueIds ==
    \A i, j \in DOMAIN items : i # j => items[i].id # items[j].id

\* C2: in every reachable state each item has completed_at set if and only if
\* its status is Terminee.
C2_CompletedIffDone ==
    \A i \in DOMAIN items : is_some(items[i].completed_at) <=> is_done(items[i].status)

\* the set-status action has just made an item Terminee
C2_Witness ==
    /\ out = Ret(TRUE)
    /\ \E i \in DOMAIN items :
        /\ is_done(items[i].status)
        /\ items[i].completed_at = Some(now)
        /\ items[i].created_at < now

\* C3: every add gives the new item the id max(ids in the list) + 1, or 1 when
\* the list is empty.
C3_AddAssignsMaxPlusOne ==
    [][AddStep =>
        NewItem.id = IF items = << >> THEN 1 ELSE SetMax(ItemIds(items)) + 1]_vars

\* C4: an id that was assigned and then removed is never given to an item
\* added later.
C4_NeverReused ==
    [][AddStep => NewItem.id \notin removed]_vars

\* C4, amended: an id that was removed is never given to an item added while
\* the list holds an item with a larger id.
C4_NotReusedBelowLargerId ==
    [][AddStep =>
        NewItem.id \notin {r \in removed : \E i \in DOMAIN items : items[i].id > r}]_vars

\* an add has followed the removal of an id smaller than one still in the list
C4_Witness ==
    /\ out = Unit
    /\ Len(items) >= 2
    /\ \E r \in removed : items[1].id > r

\* C5: from the empty list, with no removal, the k-th added item has id k, so
\* the ids are exactly 1..n.
C5_IdsAreOneToN ==
    removed = {} => \A i \in DOMAIN items : items[i].id = i

\* C6: toggle_item(id) twice in succession gives the item its original status
\* back, with completed_at present exactly when it was before.
C6_ToggleTwiceRestores ==
    [][\A id \in InputIds :
        (ToggleItem(id) /\ position(items, id) # 0) =>
            LET index == position(items, id)
                twice == toggle_item(todo_list', id, now').list.items[index]
            IN  /\ twice.status = items[index].status
                /\ is_some(twice.completed_at) <=> is_some(items[index].completed_at)]_vars

\* C7: remove_item(id) of an id in the list returns true and takes exactly one
\* item out, and the same call again returns false and changes nothing.
C7_RemoveTwice ==
    [][\A id \in InputIds :
        (RemoveItem(id) /\ position(items, id) # 0) =>
            /\ out' = Ret(TRUE)
            /\ Len(todo_list'.items) = Len(items) - 1
            /\ remove_item(todo_list', id, now') = [list |-> todo_list', ret |-> FALSE]]_vars

\* C8: an add, and a remove, toggle, set-status, priority or due-date update
\* that found its item, sets last_modified to the current time; an operation
\* that found nothing, a display and the passing of time leave it alone.
C8_LastModified ==
    [][IF now' # now
       THEN todo_list'.last_modified = todo_list.last_modified
       ELSE CASE out'.kind = "unit" -> todo_list'.last_modified = now
              [] out'.kind = "bool" ->
                    todo_list'.last_modified =
                        IF out'.val THEN now ELSE todo_list.last_modified
              [] OTHER -> todo_list'.last_modified = todo_list.last_modified]_vars

\* a mutation that found its item, later than the creation of the list
C8_Witness ==
    /\ out = Ret(TRUE)
    /\ items # << >>
    /\ todo_list.last_modified = now
    /\ todo_list.created_at < now

\* the number of times x occurs in s
Count(s, x) == Cardinality({i \in DOMAIN s : s[i] = x})

\* C9: the display order is a permutation of the items by priority descending;
\* within a priority dated items come before undated ones and earlier dates
\* first; items equal on both keys keep their insertion order.
C9_DisplayOrder ==
    out.kind = "display" =>
        LET shown == out.val IN
        /\ Len(shown) = Len(items)
        /\ \A i \in DOMAIN items : Count(shown, items[i]) = Count(items, items[i])
        /\ \A i, j \in DOMAIN shown : i < j =>
            LET a == shown[i]
                b == shown[j]
            IN  /\ PriorityAsU8(a.priority) >= PriorityAsU8(b.priority)
                /\ a.priority = b.priority =>
                    /\ is_some(b.due_date) => is_some(a.due_date)
                    /\ is_some(a.due_date) /\ is_some(b.due_date) =>
                            a.due_date[1] <= b.due_date[1]
                    /\ a.due_date = b.due_date =>
                            position(items, a.id) < position(items, b.id)

\* a displayed list that had to be reordered and has two items equal on both keys
C9_Witness ==
    /\ out.kind = "display"
    /\ Len(items) >= 3
    /\ out.val # items
    /\ \E i, j \in DOMAIN items :
        /\ i < j
        /\ items[i].priority = items[j].priority
        /\ items[i].due_date = items[j].due_date
    /\ \E i \in DOMAIN items : is_some(items[i].due_date)

\* C10: displaying a list leaves the list as it was: the same items, with the
\* same fields, in insertion order.
C10_DisplayReadsOnly ==
    [][out'.kind = "display" => todo_list' = todo_list]_vars

\* a list was displayed in an order that is not its insertion order
C10_Witness ==
    /\ out.kind = "display"
    /\ out.val # items
    /\ Len(out.val) = Len(items)

\* C11: is_overdue is true exactly for an item with a due date, a status other
\* than Terminee and a due date before today; the overdue line is printed for
\* these items and no others.
C11_IsOverdue ==
    [][Display =>
        \A i \in DOMAIN out'.val :
            LET item == out'.val[i] IN
            (out'.notes[i] = Overdue) <=>
                /\ item.due_date # None
                /\ item.status # "Terminee"
                /\ item.due_date[1] < today]_vars

\* a display has shown an item in progress, due before today, as overdue
C11_Witness ==
    /\ out.kind = "display"
    /\ \E i \in DOMAIN out.val :
        /\ out.val[i].due_date # None
        /\ out.val[i].due_date[1] < today
        /\ out.val[i].status = "EnCours"
        /\ out.notes[i] = Overdue

\* C12: the due-date line of an item is Overdue when is_overdue holds, otherwise
\* Today for 0 days, Tomorrow for 1, Soon exactly for 1 < days < 7, Scheduled
\* for days >= 7, and none without a due date.
C12_Classification ==
    [][Display =>
        \A i \in DOMAIN out'.val :
            LET item == out'.val[i]
                note == out'.notes[i]
                overdue == item.due_date # None /\ item.status # "Terminee"
                             /\ item.due_date[1] < today
                days == item.due_date[1] - today
            IN  IF item.due_date = None THEN note = NoNote
                ELSE /\ (note = Overdue) <=> overdue
                     /\ (note = Today) <=> (~overdue /\ days = 0)
                     /\ (note = Tomorrow) <=> (~overdue /\ days = 1)
                     /\ (note = Soon) <=> (~overdue /\ 1 < days /\ days < 7)
                     /\ (note = Scheduled) <=> (~overdue /\ days >= 7)]_vars

\* C16: an add with an empty title is refused and leaves the list as it was
\* (nothing appended, last_modified untouched), and no item of the list ever
\* has an empty title.
C16_EmptyTitleRefused ==
    [][/\ \A typed \in TypedTitles, description \in Descriptions, status \in TaskStatus,
             priority \in MenuPriorities, due_date \in MenuDueDates :
            (trim(typed) = ""
             /\ AddItemWithDetailsStatus(typed, description, status, priority, due_date))
                => (out' = TitreVide /\ todo_list' = todo_list)
       /\ \A i \in DOMAIN todo_list'.items : todo_list'.items[i].title # ""]_vars

\* an empty title was refused in modifier_liste, on a list that holds an item
C16_Witness ==
    /\ out = TitreVide
    /\ mode = "modifier"
    /\ Len(items) = 1

\* C13: the notes of one display are all computed from one date, also when
\* the day ends while the list is shown: there is a single day, the one on
\* which the display began or the one on which it ended, that gives every
\* note shown.
C13_SameToday ==
    [][(Display \/ \E m \in 0..(2 * MaxDueLen) : DisplayOverMidnight(m)) =>
        \E d \in {today, today'} :
            \A i \in DOMAIN out'.val :
                out'.notes[i] = due_annotation(out'.val[i], d, d)]_vars

\* C14: a load of the list's name that follows the save of the list succeeds
\* and returns the list that was saved, equal field for field.
C14_RoundTrip ==
    [][\A name \in ListNames :
        (LoadTodoList(name) /\ out.kind = "saved" /\ name = todo_list.name)
            => /\ out'.result.ok
               /\ out'.result.value = todo_list]_vars

\* a list of two items was saved and loaded: one item done, with a
\* description and a due date, the other with none of the three
C14_Witness ==
    /\ out.kind = "load"
    /\ out.result.ok
    /\ out.result.value = todo_list
    /\ Len(items) = 2
    /\ \E i, j \in DOMAIN items :
        /\ items[i].completed_at # None
        /\ items[i].description # None
        /\ items[i].due_date # None
        /\ items[j].completed_at = None
        /\ items[j].description = None
        /\ items[j].due_date = None

\* C15: a save replaces whatever the file of the list's name holds: no other
\* file changes, the save is not refused, and a load by any name of the same
\* file name returns the list just saved; creer_liste starts a new, empty
\* list whatever the directory holds.
C15_SaveOverwrites ==
    [][/\ (CreerListeFin \/ Retour) =>
            /\ out'.kind = "saved"
            /\ DOMAIN files' = DOMAIN files \cup {filename_for(todo_list.name)}
            /\ \A f \in DOMAIN files : f # filename_for(todo_list.name) => files'[f] = files[f]
            /\ \A name \in ListNames :
                filename_for(name) = filename_for(todo_list.name) =>
                    LET r == load_todo_list(files', name) IN
                    r.ok /\ r.value = todo_list
       /\ \A name \in ListNames :
            CreerListe(name) => todo_list' = TodoList_new(name, now) /\ files' = files]_vars

\* the list "a_b" was saved over the file that held the list "a b", and a
\* load of "a b" now returns the list "a_b"
C15_Witness ==
    /\ out.kind = "saved"
    /\ out.val = NameUnderscore
    /\ out.over = Some(NameSpace)
    /\ Cardinality(DOMAIN files) = 1
    /\ LET r == load_todo_list(files, NameSpace) IN r.ok /\ r.value.name = NameUnderscore

\* C17: every name listed for a file of the directory loads that file: the
\* name leads back to the file's name and load_todo_list of it returns the
\* list the file holds.
C17_ListedNamesLoad ==
    \A f \in DOMAIN files :
        ends_with(f, Json) =>
            /\ filename_for(listed_name(f)) = f
            /\ LET r == load_todo_list(files, listed_name(f)) IN
               r.ok /\ r.value = from_str(files[f]).value

\* C18: of two processes that loaded the same list and save it, the one that
\* saves last leaves its own list in the file: when a save ends, the file
\* holds the list of the process that saved, and the save was not refused.
C18_LastWriterWins ==
    [][/\ RetourWrite =>
            /\ out'.kind = "saved"
            /\ LET r == from_str(files'[filename_for(todo_list.name)]) IN
               r.ok /\ r.value = todo_list
       /\ PeerRetourWrite =>
            LET r == from_str(files'[filename_for(peer.todo_list.name)]) IN
            r.ok /\ r.value = peer.todo_list]_vars

\* the step is one of the five operations that name an item, naming id
NamesId(id) ==
    \/ RemoveItem(id)
    \/ ToggleItem(id)
    \/ \E new_status \in TaskStatus : SetStatus(id, new_status)
    \/ \E priority \in MenuPriorities : UpdateItemPriority(id, priority)
    \/ \E due_date \in MenuDueDates : UpdateItemDueDate(id, due_date)

\* C19: an operation that names an id no item of the list has returns false
\* and leaves the list as it was: items, order, fields and last_modified.
C19_NotFound ==
    [][\A id \in InputIds :
        (id \notin ItemIds(items) /\ NamesId(id)) =>
            /\ items # << >> => out' = Ret(FALSE)
            /\ todo_list' = todo_list]_vars

\* an operation found no item in a list of two, last modified earlier
C19_Witness ==
    /\ out = Ret(FALSE)
    /\ Len(items) = 2
    /\ todo_list.last_modified < now

\* every field of a but those named is the same in b
SameExcept(a, b, fields) ==
    /\ DOMAIN a = DOMAIN b
    /\ \A f \in DOMAIN a \ fields : a[f] = b[f]

\* the items of the list after the step are those before it, in the same
\* order, the one of that id changed in the fields named at most
OnlyFieldsOf(id, fields) ==
    /\ Len(todo_list'.items) = Len(items)
    /\ \A i \in DOMAIN items :
        IF items[i].id = id
        THEN SameExcept(items[i], todo_list'.items[i], fields)
        ELSE todo_list'.items[i] = items[i]

\* the items after the step are those before it without one item of that
\* id, the others in the order they had
OnlyRemoved(id) ==
    \E k \in DOMAIN items :
        /\ items[k].id = id
        /\ todo_list'.items = SubSeq(items, 1, k - 1) \o SubSeq(items, k + 1, Len(items))

C23_NewIdGreater ==
    [][AddStep =>
        /\ NewItem.id \in 1..U32_MAX
        /\ NewItem.id = LET m == IF items = << >> THEN 0 ELSE SetMax(ItemIds(items)) IN
                        IF m + 1 < U32_MAX THEN m + 1 ELSE U32_MAX
        /\ \A i \in DOMAIN items : NewItem.id > items[i].id]_vars

\* C21: a session of modifier_liste ends with a save, whatever is typed: the
\* step that leaves the menu of modifier_liste prints the message of the save
\* and leaves in the file the list that was in memory, with its changes.
C21_SessionEndsWithSave ==
    [][(mode = "modifier" /\ mode' # "modifier") =>
        /\ out'.kind = "saved"
        /\ LET r == load_todo_list(files', todo_list.name) IN
           r.ok /\ r.value = todo_list]_vars

\* C22: an update session writes to the file it read: the list loaded for the
\* name chosen has its own file name equal to the one read, the session keeps
\* the name and the directory, and the save at its end changes that file
\* only, adding none.
C22_WritesBack ==
    [][/\ (mode = "menu" /\ mode' = "modifier") =>
            /\ out'.kind = "load"
            /\ filename_for(out'.val) \in DOMAIN files
            /\ filename_for(todo_list'.name) = filename_for(out'.val)
       /\ (mode = "modifier" /\ mode' = "modifier") =>
            /\ todo_list'.name = todo_list.name
            /\ files' = files
       /\ Retour =>
            /\ DOMAIN files' = DOMAIN files
            /\ \A f \in DOMAIN files :
                f # filename_for(todo_list.name) => files'[f] = files[f]
            /\ LET r == load_todo_list(files', todo_list.name) IN
               r.ok /\ r.value = todo_list]_vars

\* an update session has saved a list with an item it toggled, beside the
\* file of another list
C22_Witness ==
    /\ mode = "menu"
    /\ out.kind = "saved"
    /\ out.over = Some(out.val)
    /\ Cardinality(DOMAIN files) = 2
    /\ LET r == load_todo_list(files, out.val) IN
        /\ r.ok
        /\ \E i \in DOMAIN r.value.items : r.value.items[i].status = "Terminee"

====
